---- MODULE Spec2Model ----
(***************************************************************************)
(* The GOLD aggregation of scripts/aggregate_gold.py: one language lane    *)
(* (process_lang) that walks its partitions in order, merges the titles of *)
(* each partition into the language's dictionary (dict.parquet), persists  *)
(* it with atomic_copy_query_to_parquet and then writes the fact           *)
(* artifacts of the partition.  The file system is modelled path by path;  *)
(* every file-system call of atomic_copy_query_to_parquet is one step.     *)
(***************************************************************************)
EXTENDS Integers, Sequences, FiniteSets, TLC

\* ------------------------------------------------------------ bounds
\* partitions (year, month) of the language, numbered in sorted order
NumParts == 2
\* invocations of the script over the same gold root
MaxRuns == 2
\* records of one silver partition file
MaxRecs == 1
\* largest click count n of a record
MaxCount == 1

\* Titles are strings, modelled as sequences of code points; DuckDB orders
\* VARCHAR by code point, lexicographically.
Titles == {<<1, 2>>, <<2>>}

\* A nullable title column: <<>> is NULL, <<t>> is the title t.
Null == <<>>
OptTitles == {Null} \cup {<<t>> : t \in Titles}

\* the rows a silver data.parquet may hold
Records == [prev_title : OptTitles, curr_title : OptTitles, n : 0..MaxCount]

RECURSIVE SeqsUpTo(_, _)
SeqsUpTo(S, k) ==
  IF k = 0 THEN {<<>>}
  ELSE LET shorter == SeqsUpTo(S, k - 1)
       IN shorter \cup {Append(q, x) : q \in {r \in shorter : Len(r) = k - 1}, x \in S}

SilverFiles == SeqsUpTo(Records, MaxRecs)

Range(f) == {f[i] : i \in DOMAIN f}

\* ------------------------------------------------------------ paths
Artifacts == <<"article_popularity", "article_top", "referrers_top", "edges_monthly">>
ArtifactSet == Range(Artifacts)
Parts == 1..NumParts

outputs_for(p) == [a \in ArtifactSet |-> <<p, a>>]
dim_path_for == <<0, "dict">>
Paths == {dim_path_for} \cup {<<p, a>> : p \in Parts, a \in ArtifactSet}

\* ------------------------------------------------------------ files
Absent == [st |-> "absent", rows |-> {}]
Partial == [st |-> "partial", rows |-> {}]
Complete(rows) == [st |-> "complete", rows |-> rows]
\* a file of non-zero size that read_parquet cannot parse
Corrupt == [st |-> "corrupt", rows |-> {}]

exists(f) == f.st # "absent"
\* a parquet file has a header and a footer even with no rows
getsize(f) == IF f.st = "absent" THEN 0 ELSE 1 + Cardinality(f.rows)

\* ------------------------------------------------------------ run_one_partition: table s
\* mutant: no WHERE n > 0
Silver_NoFilter(rows) == rows

\* CREATE TABLE s AS SELECT ... FROM read_parquet(src) WHERE n > 0
Silver(rows) == SelectSeq(rows, LAMBDA r : r.n > 0)

\* ------------------------------------------------------------ the dictionary (dim)
\* ORDER BY title: VARCHAR comparison, code point by code point
RECURSIVE TitleLess(_, _)
TitleLess(a, b) ==
  IF a = <<>> THEN b # <<>>
  ELSE IF b = <<>> THEN FALSE
  ELSE IF Head(a) # Head(b) THEN Head(a) < Head(b)
  ELSE TitleLess(Tail(a), Tail(b))

\* mutant: the prev_title branch of the UNION ALL is left out
PartTitlesAll_CurrOnly(s) ==
  LET c == SelectSeq(s, LAMBDA r : r.curr_title # Null)
  IN [i \in 1..Len(c) |-> c[i].curr_title[1]]

\* part_titles_all: curr_title of s UNION ALL prev_title of s, NULLs left out
PartTitlesAll(s) ==
  LET c == SelectSeq(s, LAMBDA r : r.curr_title # Null)
      p == SelectSeq(s, LAMBDA r : r.prev_title # Null)
  IN [i \in 1..Len(c) |-> c[i].curr_title[1]] \o [i \in 1..Len(p) |-> p[i].prev_title[1]]

\* part_titles: SELECT DISTINCT title FROM part_titles_all
PartTitles(s) == Range(PartTitlesAll(s))

\* mutant: no anti-join, every title of the partition counts as new
NewTitles_NoAntiJoin(part_titles, dim_idx) == part_titles

\* new_titles: part_titles LEFT JOIN dim_idx ON title WHERE d.id IS NULL
NewTitles(part_titles, dim_idx) ==
  {t \in part_titles : \A d \in dim_idx : d.title # t}

\* base: SELECT COALESCE(MAX(id), 0) FROM dim
MaxId(dim) ==
  IF dim = {} THEN 0
  ELSE CHOOSE m \in {d.id : d \in dim} : \A d \in dim : d.id <= m

\* mutant: ORDER BY title DESC
RowNumber_Descending(t, titles) == Cardinality({u \in titles : TitleLess(t, u)}) + 1

\* ROW_NUMBER() OVER (ORDER BY title) of title t among the distinct titles
RowNumber(t, titles) == Cardinality({u \in titles : TitleLess(u, t)}) + 1

\* dim_new: the new titles numbered from base + 1 in title order
DimNew(new_titles, base) ==
  {[id |-> RowNumber(t, new_titles) + base, title |-> t] : t \in new_titles}

\* dim_merged: dim UNION ALL dim_new
DimMerged(dim, dim_idx, s) ==
  dim \cup DimNew(NewTitles(PartTitles(s), dim_idx), MaxId(dim))

\* load_or_init_dim: the rows of the file when it exists with a size > 0,
\* else the empty table
LoadDim(f) == IF exists(f) /\ getsize(f) > 0 THEN f.rows ELSE {}

\* mutant: the existence test is inverted
missing_outputs_Inverted(files, p) ==
  {a \in ArtifactSet : exists(files[outputs_for(p)[a]])}

\* missing_outputs: the artifacts whose file is absent or has size <= 0
missing_outputs(files, p) ==
  {a \in ArtifactSet : ~exists(files[outputs_for(p)[a]]) \/ getsize(files[outputs_for(p)[a]]) <= 0}

\* to_write of run_one_partition
ToWrite(files, p, skip, edges, ref) ==
  LET all == IF ~skip THEN ArtifactSet ELSE missing_outputs(files, p)
      noE == IF ~edges THEN all \ {"edges_monthly"} ELSE all
  IN IF ~ref THEN noE \ {"referrers_top"} ELSE noE

\* mutant: the switches are not looked at
WriteOrder_IgnoreSwitches(edges, ref) == Artifacts

\* compute_and_write_outputs writes, in this order, the two popularity
\* artifacts and then referrers and edges under their switches
WriteOrder(edges, ref) ==
  SelectSeq(Artifacts, LAMBDA a : /\ (a = "referrers_top" => ref)
                                  /\ (a = "edges_monthly" => edges))

\* ------------------------------------------------------------ the facts
\* A NULL id (prev_id of a row without referrer); the ids of the dictionary
\* start at 1.
NullId == 0

\* mutant: the join on prev_title is an inner join
SIds_InnerJoinPrev(s, dim_idx) ==
  LET dcs(r) == IF r.curr_title = Null THEN {}
                ELSE {d \in dim_idx : d.title = r.curr_title[1]}
      dps(r) == IF r.prev_title = Null THEN {}
                ELSE {d \in dim_idx : d.title = r.prev_title[1]}
  IN UNION {{[i |-> i, prev_id |-> dp.id, curr_id |-> dc.id, n |-> s[i].n]
               : dc \in dcs(s[i]), dp \in dps(s[i])} : i \in DOMAIN s}

\* s_ids: s JOIN dim_idx dc ON dc.title = s.curr_title
\*          LEFT JOIN dim_idx dp ON dp.title = s.prev_title.
\* One row per row i of s, per dc and per dp that match; a NULL title matches
\* nothing; without a dp the row is kept with a NULL prev_id.  lang, year and
\* month are the same in every row of a partition file and are left out.
SIds(s, dim_idx) ==
  LET dcs(r) == IF r.curr_title = Null THEN {}
                ELSE {d \in dim_idx : d.title = r.curr_title[1]}
      dps(r) == IF r.prev_title = Null THEN {}
                ELSE {d \in dim_idx : d.title = r.prev_title[1]}
      prevs(r) == IF dps(r) = {} THEN {NullId} ELSE {d.id : d \in dps(r)}
  IN UNION {{[i |-> i, prev_id |-> p, curr_id |-> dc.id, n |-> s[i].n]
               : dc \in dcs(s[i]), p \in prevs(s[i])} : i \in DOMAIN s}

\* SUM(n) over a set of rows of s_ids
RECURSIVE SumN(_)
SumN(rows) ==
  IF rows = {} THEN 0
  ELSE LET r == CHOOSE x \in rows : TRUE IN r.n + SumN(rows \ {r})

\* mutant: COUNT(*) in place of SUM(n)
Pop_CountRows(s_ids) ==
  {[curr_id |-> c, total_clicks |-> Cardinality({r \in s_ids : r.curr_id = c})]
     : c \in {r.curr_id : r \in s_ids}}

\* q_pop: SELECT curr_id, SUM(n) AS total_clicks FROM s_ids GROUP BY curr_id
Pop(s_ids) ==
  {[curr_id |-> c, total_clicks |-> SumN({r \in s_ids : r.curr_id = c})]
     : c \in {r.curr_id : r \in s_ids}}

\* ROW_NUMBER() OVER (PARTITION BY part ORDER BY key DESC), part and key being
\* columns of rows: the numberings the engine may produce.  Rows of one partition with equal keys have no order
\* among them in the query, so every numbering that respects the keys is an
\* outcome.
RowNumberings(rows, part, key) ==
  {f \in [rows -> 1..Cardinality(rows)] :
     \A a \in rows :
       /\ f[a] <= Cardinality({b \in rows : part[b] = part[a]})
       /\ \A b \in rows :
            (part[a] = part[b] /\ a # b) =>
              /\ f[a] # f[b]
              /\ key[a] > key[b] => f[a] < f[b]}

\* q_top: pop numbered by total_clicks DESC, QUALIFY rn <= topn
TopOutcomes(pop, topn) ==
  LET part == [r \in pop |-> 0]
      key == [r \in pop |-> r.total_clicks]
  IN {{[curr_id |-> r.curr_id, total_clicks |-> r.total_clicks, rn |-> f[r]]
         : r \in {x \in pop : f[x] <= topn}}
        : f \in RowNumberings(pop, part, key)}

\* agg of q_ref and the grouping of q_edges: the rows of s_ids with a prev_id,
\* summed by (curr_id, prev_id)
Agg(s_ids) ==
  LET withPrev == {r \in s_ids : r.prev_id # NullId}
  IN {[curr_id |-> g[1], prev_id |-> g[2],
       clicks |-> SumN({r \in withPrev : r.curr_id = g[1] /\ r.prev_id = g[2]})]
        : g \in {<<r.curr_id, r.prev_id>> : r \in withPrev}}

\* mutant: no QUALIFY rn <= topm
RefOutcomes_NoQualify(s_ids, min_ref, topm) ==
  LET kept == {a \in Agg(s_ids) : a.clicks >= min_ref}
      part == [r \in kept |-> r.curr_id]
      key == [r \in kept |-> r.clicks]
  IN {{[curr_id |-> r.curr_id, prev_id |-> r.prev_id, clicks_from_prev |-> r.clicks,
        rn |-> f[r]] : r \in kept}
        : f \in RowNumberings(kept, part, key)}

\* q_ref: agg WHERE clicks_from_prev >= min_ref, numbered per curr_id by
\* clicks_from_prev DESC, QUALIFY rn <= topm
RefOutcomes(s_ids, min_ref, topm) ==
  LET kept == {a \in Agg(s_ids) : a.clicks >= min_ref}
      part == [r \in kept |-> r.curr_id]
      key == [r \in kept |-> r.clicks]
  IN {{[curr_id |-> r.curr_id, prev_id |-> r.prev_id, clicks_from_prev |-> r.clicks,
        rn |-> f[r]] : r \in {x \in kept : f[x] <= topm}}
        : f \in RowNumberings(kept, part, key)}

\* mutant: no HAVING SUM(n) >= min_edges
Edges_NoHaving(s_ids, min_edges) ==
  {[prev_id |-> a.prev_id, curr_id |-> a.curr_id, total_transitions |-> a.clicks]
     : a \in Agg(s_ids)}

\* q_edges: ... GROUP BY prev_id, curr_id HAVING SUM(n) >= min_edges
Edges(s_ids, min_edges) ==
  {[prev_id |-> a.prev_id, curr_id |-> a.curr_id, total_transitions |-> a.clicks]
     : a \in {x \in Agg(s_ids) : x.clicks >= min_edges}}

\* ------------------------------------------------------------ state
VARIABLES
  run,            \* invocations of main started so far
  skip_existing,  \* --skip-existing / --no-skip-existing of this run
  write_edges,    \* not --no-edges
  write_ref,      \* not --no-referrers
  topn,           \* --topn
  topm,           \* --topm-referrers
  min_edges,      \* --min-clicks-edges
  min_ref,        \* --min-clicks-referrers
  idx,            \* process_lang: position in the sorted partition list
  pc,             \* control location of the lane
  cp,             \* out_file of the atomic_copy_query_to_parquet in progress
  processed,      \* process_lang: counters of the run
  skipped,
  faults,         \* exceptions raised so far (bounded by MaxFaults)
  to_write,       \* run_one_partition: to_write
  src_rows,       \* rows of read_parquet(src) in this call
  s,              \* TEMP TABLE s of the session
  dim,            \* TEMP TABLE dim
  dim_idx,        \* TEMP TABLE dim_idx
  dim_merged,     \* TEMP TABLE dim_merged
  fs,             \* the file at each final path
  tmp,            \* the file at each path + ".tmp"
  copied,         \* history: paths whose COPY began in this call
  wrote,          \* history: final paths renamed into place in this call
  published,      \* history: every row a persisted dictionary has held
  failed,         \* history: some partition of this run raised
  last,           \* history: the previous run, [clean, edges, ref]
  mpc,            \* main: control location
  workers,        \* --workers
  arg_lang,       \* --lang, or NoLang
  silver_root,    \* the silver root directory exists
  silver,         \* the partition files under the silver root
  silver_files,   \* main: files, after the filters
  dirs,           \* the directories main has created
  jobs,           \* main: jobs, one (lang, files) per language
  lane,           \* the process_lang call of each job
  await,          \* main: the job whose result is awaited
  total,          \* main: processed, skipped
  summary,        \* main: [RESUMEN] has been printed
  written,        \* history: the final paths the lanes have written
  ipc,            \* build_gold_specifics: control location of main
  ilang,          \* build_gold_specifics main: position in langs
  overwrite,      \* --no-skip
  gold_src,       \* the GOLD sources of the language being built
  iwritten,       \* the GOLD_Specifics outputs written in this run
  iwarned,        \* the builders that printed the title-column [WARN]
  ilast,          \* the outcome of the builder that ran last
  e6_src,         \* the edges_monthly file of each period of a language
  e6_out,         \* the edges_6m file of each period of a language
  topn_pairs      \* --topn-edges

vars == <<run, skip_existing, write_edges, write_ref, topn, topm, min_edges, min_ref, idx, pc, cp, processed, skipped,
          faults, to_write, src_rows, s, dim, dim_idx, dim_merged, fs, tmp,
          copied, wrote, published, failed, last,
          mpc, workers, arg_lang, silver_root, silver, silver_files, dirs, jobs, lane,
          await, total, summary, written,
          ipc, ilang, overwrite, gold_src, iwritten, iwarned, ilast, e6_src, e6_out, topn_pairs>>

flags == <<skip_existing, write_edges, write_ref, topn, topm, min_edges, min_ref>>
counters == <<processed, skipped>>
tables == <<s, dim, dim_idx, dim_merged>>
files == <<fs, tmp>>
history == <<copied, wrote, published, failed, last>>
pool == <<mpc, workers, arg_lang, silver_root, silver, silver_files, dirs, jobs, lane,
          await, total, summary, written>>

insights == <<ipc, ilang, overwrite, gold_src, iwritten, iwarned, ilast, e6_src, e6_out, topn_pairs>>

\* exceptions raised in one exploration
MaxFaults == 1

NoPath == <<0, "none">>

\* --lang not given
NoLang == 0

\* main has not globbed yet: argparse default of --workers, no job
PoolInit ==
  /\ mpc = "start" /\ workers = 2 /\ arg_lang = NoLang
  /\ silver_root = TRUE /\ silver = {} /\ silver_files = <<>>
  /\ dirs = {} /\ jobs = <<>> /\ lane = <<>>
  /\ await = 1 /\ total = [processed |-> 0, skipped |-> 0]
  /\ summary = FALSE /\ written = {}

\* the (year, month) partitions of edges_monthly of one language: two
\* months in a row, a gap of five months, and a turn of the year
EdgePeriods == {<<2023, 6>>, <<2023, 7>>, <<2023, 12>>, <<2024, 1>>}

NoSource == [popularity |-> [st |-> "none", cols |-> {}], edges |-> [st |-> "none", cols |-> {}]]
NoOutcome ==
  [lang |-> 0, step |-> "none", outcome |-> "none",
   curr |-> [expr |-> "NULL", col |-> <<>>], prev |-> [expr |-> "NULL", col |-> <<>>]]

\* build_gold_specifics has not started; argparse defaults
InsightsInit ==
  /\ ipc = "start" /\ ilang = 0 /\ overwrite = FALSE
  /\ gold_src = NoSource /\ iwritten = {} /\ iwarned = {} /\ ilast = NoOutcome
  /\ e6_src = [p \in EdgePeriods |-> Absent]
  /\ e6_out = [p \in EdgePeriods |-> Absent]
  /\ topn_pairs = 100000

\* argparse defaults; a fresh gold root; no session yet
LaneInit ==
  /\ run = 0
  /\ skip_existing = TRUE /\ write_edges = TRUE /\ write_ref = TRUE
  /\ topn = 1000 /\ topm = 50 /\ min_edges = 1 /\ min_ref = 1
  /\ idx = 1 /\ pc = "idle" /\ cp = NoPath
  /\ processed = 0 /\ skipped = 0 /\ faults = 0
  /\ to_write = {}
  /\ src_rows = <<>> /\ s = <<>>
  /\ dim = {} /\ dim_idx = {} /\ dim_merged = {}
  /\ fs = [p \in Paths |-> Absent]
  /\ tmp = [p \in Paths |-> Absent]
  /\ copied = {} /\ wrote = {} /\ published = {} /\ failed = FALSE
  /\ last = [clean |-> FALSE, edges |-> FALSE, ref |-> FALSE]

Init == LaneInit /\ PoolInit /\ InsightsInit

\* main: parse the switches, open the lane of the language (process_lang
\* connects a fresh in-memory session).  The limits of the fact queries bear
\* only on the rows of the facts, which this machine does not follow: they
\* stay at the argparse defaults here and are drawn in SpecFacts.
Main ==
  /\ pc = "idle" /\ run < MaxRuns
  /\ run' = run + 1
  /\ skip_existing' \in BOOLEAN /\ write_edges' \in BOOLEAN /\ write_ref' \in BOOLEAN
  /\ idx' = 1 /\ pc' = "loop"
  /\ processed' = 0 /\ skipped' = 0
  /\ s' = <<>> /\ dim' = {} /\ dim_idx' = {} /\ dim_merged' = {}
  /\ failed' = FALSE
  /\ UNCHANGED <<insights, pool, topn, topm, min_edges, min_ref, cp, faults, to_write, src_rows, files,
                 copied, wrote, published, last>>

\* process_lang: the loop is over, return (processed, skipped); con.close()
ProcessLangReturn ==
  /\ pc = "loop" /\ idx > NumParts
  /\ pc' = "idle"
  /\ s' = <<>> /\ dim' = {} /\ dim_idx' = {} /\ dim_merged' = {}
  /\ last' = [clean |-> ~failed, edges |-> write_edges, ref |-> write_ref]
  /\ UNCHANGED <<insights, pool, run, flags, idx, cp, counters, faults, to_write, src_rows, files,
                 copied, wrote, published, failed>>

\* mutant: no early return, the partition is processed again
RunOnePartition_NoEarlyReturn ==
  /\ pc = "loop" /\ idx <= NumParts
  /\ to_write' = ToWrite(fs, idx, skip_existing, write_edges, write_ref)
  /\ copied' = {} /\ wrote' = {}
  /\ pc' = "read"
  /\ UNCHANGED <<insights, pool, run, flags, idx, cp, counters, faults, src_rows, tables, files,
                 published, failed, last>>

\* run_one_partition, lines 216-225: to_write, and the early return "skipped"
RunOnePartition ==
  /\ pc = "loop" /\ idx <= NumParts
  /\ to_write' = ToWrite(fs, idx, skip_existing, write_edges, write_ref)
  /\ copied' = {} /\ wrote' = {}
  /\ IF skip_existing /\ to_write' = {}
       THEN /\ skipped' = skipped + 1
            /\ idx' = idx + 1
            /\ pc' = "loop"
       ELSE /\ pc' = "read"
            /\ UNCHANGED <<skipped, idx>>
  /\ UNCHANGED <<insights, pool, run, flags, cp, processed, faults, src_rows, tables, files,
                 published, failed, last>>

\* run_one_partition, lines 227-239: read the silver file into s
ReadSilver ==
  /\ pc = "read"
  /\ \E rows \in SilverFiles :
       /\ src_rows' = rows
       /\ s' = Silver(rows)
  /\ pc' = "load"
  /\ UNCHANGED <<insights, pool, run, flags, idx, cp, counters, faults, to_write, dim, dim_idx,
                 dim_merged, files, history>>

\* the silver file cannot be read: the query raises
ReadSilverFails ==
  /\ pc = "read" /\ faults < MaxFaults
  /\ faults' = faults + 1
  /\ pc' = "except"
  /\ UNCHANGED <<insights, pool, run, flags, idx, cp, counters, to_write, src_rows, tables, files,
                 history>>

\* load_or_init_dim
LoadOrInitDim ==
  /\ pc = "load" /\ fs[dim_path_for] # Corrupt
  /\ dim' = LoadDim(fs[dim_path_for])
  /\ dim_idx' = dim'
  /\ pc' = "update"
  /\ UNCHANGED <<insights, pool, run, flags, idx, cp, counters, faults, to_write, src_rows, s,
                 dim_merged, files, history>>

\* mutant: the merged dictionary is not persisted before the facts
UpdateDimWithPartition_NoPersist ==
  /\ pc = "update"
  /\ dim_merged' = DimMerged(dim, dim_idx, s)
  /\ pc' = "refresh"
  /\ UNCHANGED <<insights, pool, run, flags, idx, cp, counters, faults, to_write, src_rows, s, dim,
                 dim_idx, files, history>>

\* update_dim_with_partition, lines 106-142: the merge, then the persist begins
UpdateDimWithPartition ==
  /\ pc = "update"
  /\ dim_merged' = DimMerged(dim, dim_idx, s)
  /\ cp' = dim_path_for
  /\ pc' = "ac_unlink_tmp"
  /\ UNCHANGED <<insights, pool, run, flags, idx, counters, faults, to_write, src_rows, s, dim,
                 dim_idx, files, history>>

\* the rows of the query atomic_copy_query_to_parquet copies to out_file:
\* SELECT id, title FROM dim_merged for the dictionary.  The rows of the
\* fact queries are not part of this state machine.
QueryRows(out_file) == IF out_file = dim_path_for THEN dim_merged ELSE {}

\* mutant: a leftover temporary file is kept
AcUnlinkTmp_Keep ==
  /\ pc = "ac_unlink_tmp"
  /\ pc' = "ac_copy"
  /\ UNCHANGED <<insights, pool, run, flags, idx, cp, counters, faults, to_write, src_rows, tables,
                 fs, tmp, history>>

\* atomic_copy_query_to_parquet, lines 35-36: if tmp.exists(): tmp.unlink()
AcUnlinkTmp ==
  /\ pc = "ac_unlink_tmp"
  /\ tmp' = IF exists(tmp[cp]) THEN [tmp EXCEPT ![cp] = Absent] ELSE tmp
  /\ pc' = "ac_copy"
  /\ UNCHANGED <<insights, pool, run, flags, idx, cp, counters, faults, to_write, src_rows, tables,
                 fs, history>>

\* mutant: COPY writes to out_file itself
AcCopyBegin_InPlace ==
  /\ pc = "ac_copy"
  /\ fs' = [fs EXCEPT ![cp] = Partial]
  /\ copied' = copied \cup {cp}
  /\ pc' = "ac_copying"
  /\ UNCHANGED <<insights, pool, run, flags, idx, cp, counters, faults, to_write, src_rows, tables,
                 tmp, wrote, published, failed, last>>

\* lines 38-41: COPY (query) TO tmp creates the file ...
AcCopyBegin ==
  /\ pc = "ac_copy"
  /\ tmp' = [tmp EXCEPT ![cp] = Partial]
  /\ copied' = copied \cup {cp}
  /\ pc' = "ac_copying"
  /\ UNCHANGED <<insights, pool, run, flags, idx, cp, counters, faults, to_write, src_rows, tables,
                 fs, wrote, published, failed, last>>

\* ... and writes it to the end
AcCopyEnd ==
  /\ pc = "ac_copying"
  /\ tmp' = [tmp EXCEPT ![cp] = Complete(QueryRows(cp))]
  /\ pc' = "ac_unlink_out"
  /\ UNCHANGED <<insights, pool, run, flags, idx, cp, counters, faults, to_write, src_rows, tables,
                 fs, history>>

\* the query or the COPY raises, before the file is created or part way
AcCopyFails ==
  /\ pc \in {"ac_copy", "ac_copying"} /\ faults < MaxFaults
  /\ faults' = faults + 1
  /\ pc' = "except"
  /\ UNCHANGED <<insights, pool, run, flags, idx, cp, counters, to_write, src_rows, tables, files,
                 history>>

\* lines 42-43: if out_file.exists(): out_file.unlink()
AcUnlinkOut ==
  /\ pc = "ac_unlink_out"
  /\ fs' = IF exists(fs[cp]) THEN [fs EXCEPT ![cp] = Absent] ELSE fs
  /\ pc' = "ac_rename"
  /\ UNCHANGED <<insights, pool, run, flags, idx, cp, counters, faults, to_write, src_rows, tables,
                 tmp, history>>

\* where the caller of atomic_copy_query_to_parquet goes on: after the
\* dictionary, lines 147-148; after an artifact, the next one enabled
AfterCopy(out_file) ==
  IF out_file = dim_path_for THEN [pc |-> "refresh", cp |-> out_file]
  ELSE LET order == WriteOrder(write_edges, write_ref)
           k == CHOOSE i \in 1..Len(order) : order[i] = out_file[2]
       IN IF k < Len(order)
            THEN [pc |-> "ac_unlink_tmp", cp |-> <<out_file[1], order[k + 1]>>]
            ELSE [pc |-> "return", cp |-> out_file]

\* line 44: tmp.rename(out_file)
AcRename ==
  /\ pc = "ac_rename"
  /\ fs' = [fs EXCEPT ![cp] = tmp[cp]]
  /\ tmp' = [tmp EXCEPT ![cp] = Absent]
  /\ wrote' = wrote \cup {cp}
  /\ published' = IF cp = dim_path_for THEN published \cup tmp[cp].rows ELSE published
  /\ pc' = AfterCopy(cp).pc
  /\ cp' = AfterCopy(cp).cp
  /\ UNCHANGED <<insights, pool, run, flags, idx, counters, faults, to_write, src_rows, tables,
                 copied, failed, last>>

\* tmp.rename(out_file) raises OSError
AcRenameFails ==
  /\ pc = "ac_rename" /\ faults < MaxFaults
  /\ faults' = faults + 1
  /\ pc' = "except"
  /\ UNCHANGED <<insights, pool, run, flags, idx, cp, counters, to_write, src_rows, tables, files,
                 history>>

\* update_dim_with_partition, lines 147-148: refresh dim and dim_idx
RefreshDim ==
  /\ pc = "refresh"
  /\ dim' = dim_merged
  /\ dim_idx' = dim'
  /\ pc' = "outputs"
  /\ UNCHANGED <<insights, pool, run, flags, idx, cp, counters, faults, to_write, src_rows, s,
                 dim_merged, files, history>>

\* compute_and_write_outputs: article_popularity is written first
ComputeAndWriteOutputs ==
  /\ pc = "outputs"
  /\ cp' = outputs_for(idx)["article_popularity"]
  /\ pc' = "ac_unlink_tmp"
  /\ UNCHANGED <<insights, pool, run, flags, idx, counters, faults, to_write, src_rows, tables,
                 files, history>>

\* run_one_partition returns "processed"; process_lang counts it
ReturnProcessed ==
  /\ pc = "return"
  /\ processed' = processed + 1
  /\ idx' = idx + 1
  /\ pc' = "loop"
  /\ src_rows' = <<>> /\ to_write' = {} /\ cp' = NoPath
  /\ UNCHANGED <<insights, pool, run, flags, skipped, faults, tables, files, history>>

\* mutant: no try/except around run_one_partition, the loop is left
HandleException_Reraise ==
  /\ pc = "except"
  /\ idx' = NumParts + 1
  /\ pc' = "loop"
  /\ src_rows' = <<>> /\ to_write' = {} /\ cp' = NoPath
  /\ failed' = TRUE
  /\ UNCHANGED <<insights, pool, run, flags, counters, faults, tables, files,
                 copied, wrote, published, last>>

\* mutant: the partition that raised is not counted
HandleException_NotCounted ==
  /\ pc = "except"
  /\ idx' = idx + 1
  /\ pc' = "loop"
  /\ src_rows' = <<>> /\ to_write' = {} /\ cp' = NoPath
  /\ failed' = TRUE
  /\ UNCHANGED <<insights, pool, run, flags, counters, faults, tables, files,
                 copied, wrote, published, last>>

\* process_lang, lines 269-272: except Exception: skipped += 1, next partition
HandleException ==
  /\ pc = "except"
  /\ skipped' = skipped + 1
  /\ idx' = idx + 1
  /\ pc' = "loop"
  /\ src_rows' = <<>> /\ to_write' = {} /\ cp' = NoPath
  /\ failed' = TRUE
  /\ UNCHANGED <<insights, pool, run, flags, processed, faults, tables, files,
                 copied, wrote, published, last>>

\* ------------------------------------------------------------ the merge alone
\* load_or_init_dim and update_dim_with_partition over a sequence of
\* partitions whose persist succeeds: the dictionary loaded is the one merged
\* before.  The partitions draw their rows, all with n > 0, from a larger set
\* of titles.
MaxMerges == 3
MergeTitles == Titles \cup {<<1>>}
MergeOptTitles == {Null} \cup {<<t>> : t \in MergeTitles}
MergeFiles ==
  SeqsUpTo([prev_title : MergeOptTitles, curr_title : MergeOptTitles, n : {1}], MaxRecs)

LoadAndUpdateDim ==
  /\ processed < MaxMerges
  /\ \E rows \in MergeFiles :
       /\ s' = Silver(rows)
       /\ dim' = LoadDim(Complete(dim_merged))
       /\ dim_idx' = dim'
       /\ dim_merged' = DimMerged(dim', dim_idx', s')
  /\ processed' = processed + 1
  /\ UNCHANGED <<insights, pool, run, flags, idx, pc, cp, skipped, faults, to_write, src_rows,
                 files, history>>

SpecMerge == Init /\ [][LoadAndUpdateDim]_vars

\* ------------------------------------------------------------ the facts of one partition
\* run_one_partition from the read of the silver file to the return of
\* "processed", with no exception, as one step: the rows of the dictionary
\* and of every artifact written are those of the queries.  The gold root
\* holds the dictionary of the language left by earlier partitions and no
\* artifact of this partition.
\* records of the partition file
FactRecs == 2
\* largest click count n of a record
MaxClicks == 2
\* largest --topn and --topm-referrers
MaxTop == 2
\* largest --min-clicks-edges and --min-clicks-referrers
MaxMin == 2

FactFiles ==
  SeqsUpTo([prev_title : OptTitles, curr_title : OptTitles, n : 0..MaxClicks], FactRecs)

\* the dictionaries earlier partitions can have left over the titles T: each
\* title once, ids 1..k in some order of arrival
DimsOver(T) ==
  UNION {{{[id |-> f[t], title |-> t] : t \in S}
            : f \in {g \in [S -> 1..Cardinality(S)] : \A a, b \in S : a # b => g[a] # g[b]}}
           : S \in SUBSET T}

\* the state before the partition is processed: switches and limits of the
\* command line, the dictionary file dict_file
FactsStart(dict_file) ==
  /\ run = 1
  /\ skip_existing = TRUE /\ write_edges = TRUE /\ write_ref = TRUE
  /\ topn \in 1..MaxTop /\ topm \in 1..MaxTop
  /\ min_edges \in 1..MaxMin /\ min_ref \in 1..MaxMin
  /\ idx = 1 /\ pc = "loop" /\ cp = NoPath
  /\ processed = 0 /\ skipped = 0 /\ faults = 0
  /\ to_write = {}
  /\ src_rows = <<>> /\ s = <<>>
  /\ dim = {} /\ dim_idx = {} /\ dim_merged = {}
  /\ fs = [p \in Paths |-> IF p = dim_path_for THEN dict_file ELSE Absent]
  /\ tmp = [p \in Paths |-> Absent]
  /\ copied = {} /\ wrote = {} /\ published = dict_file.rows /\ failed = FALSE
  /\ last = [clean |-> FALSE, edges |-> FALSE, ref |-> FALSE]
  /\ PoolInit
  /\ InsightsInit

InitFacts == \E d \in {Absent} \cup {Complete(x) : x \in DimsOver(Titles)} : FactsStart(d)

\* run_one_partition on the rows of the silver file, lines 227-249
RunOnePartitionOn(rows) ==
  /\ pc = "loop" /\ idx = 1
  /\ src_rows' = rows
  /\ s' = Silver(rows)
  /\ LET loaded == LoadDim(fs[dim_path_for])
     IN dim_merged' = DimMerged(loaded, loaded, s')
  /\ dim' = dim_merged' /\ dim_idx' = dim'
  /\ to_write' = ToWrite(fs, idx, skip_existing, write_edges, write_ref)
  /\ LET s_ids == SIds(s', dim_idx')
         outs == outputs_for(idx)
         order == Range(WriteOrder(write_edges, write_ref))
     IN \E top \in TopOutcomes(Pop(s_ids), topn), ref \in RefOutcomes(s_ids, min_ref, topm) :
          LET rows_of == [a \in ArtifactSet |->
                            IF a = "article_popularity" THEN Pop(s_ids)
                            ELSE IF a = "article_top" THEN top
                            ELSE IF a = "referrers_top" THEN ref
                            ELSE Edges(s_ids, min_edges)]
          IN /\ fs' = [q \in Paths |->
                         IF q = dim_path_for THEN Complete(dim_merged')
                         ELSE IF q[1] = idx /\ q[2] \in order THEN Complete(rows_of[q[2]])
                         ELSE fs[q]]
             /\ wrote' = {dim_path_for} \cup {outs[a] : a \in order}
  /\ copied' = wrote'
  /\ published' = published \cup dim_merged'
  /\ processed' = processed + 1
  /\ idx' = idx + 1
  /\ UNCHANGED <<insights, pool, run, flags, pc, cp, skipped, faults, tmp, failed, last>>

RunOnePartitionFacts == \E rows \in FactFiles : RunOnePartitionOn(rows)

SpecFacts == InitFacts /\ [][RunOnePartitionFacts]_vars

\* ------------------------------------------------------------ the partition en/2024-01
\* The same step over the records (null, Paris, 100), (Paris, London, 50)
\* and (null, London, 30), in any number and any order of arrival, from an
\* empty dictionary.
London == <<76, 111, 110, 100, 111, 110>>
Paris == <<80, 97, 114, 105, 115>>

ScenarioRecords ==
  {[prev_title |-> Null, curr_title |-> <<Paris>>, n |-> 100],
   [prev_title |-> <<Paris>>, curr_title |-> <<London>>, n |-> 50],
   [prev_title |-> Null, curr_title |-> <<London>>, n |-> 30]}

\* records of the partition file
ScenarioRecs == 3

ScenarioFiles == SeqsUpTo(ScenarioRecords, ScenarioRecs)

InitScenario == \E d \in {Absent, Complete({})} : FactsStart(d)

RunOnePartitionScenario == \E rows \in ScenarioFiles : RunOnePartitionOn(rows)

SpecScenario == InitScenario /\ [][RunOnePartitionScenario]_vars

\* ------------------------------------------------------------ main and the lanes
\* main from the glob to the summary, with one process_lang call per job.
\* A lane takes its partitions through run_one_partition in three steps
\* (start, dictionary written, facts written); the rows are left out.
\* languages under the silver root, numbered
NumLangs == 2
\* (year, month) pairs under a language, numbered in ascending order
NumYM == 2
\* largest --workers
MaxWorkers == 2

Langs == 1..NumLangs

\* the place of (year, month) in a directory name whose year or month is not
\* an integer
Malformed == 0

\* the data.parquet files the glob lang=*/year=*/month=*/data.parquet can find
AllSilver ==
  {[lang |-> l, ym |-> y] : l \in Langs, y \in 1..NumYM} \cup {[lang |-> 1, ym |-> Malformed]}

\* the orders in which a list can hold the elements of S
Perms(S) ==
  {f \in [1..Cardinality(S) -> S] : \A a, b \in 1..Cardinality(S) : a # b => f[a] # f[b]}

\* main, lines 310-311: the --lang filter
LangFilter(fls, lang) == SelectSeq(fls, LAMBDA f : lang = NoLang \/ f.lang = lang)

\* parse_partition_from_path raises ValueError at int(...)
ParseRaises(f) == f.ym = Malformed

\* the keys of by_lang, in the order they are inserted
RECURSIVE LangsOf(_)
LangsOf(fls) ==
  IF fls = <<>> THEN <<>>
  ELSE <<Head(fls).lang>> \o LangsOf(SelectSeq(Tail(fls), LAMBDA f : f.lang # Head(fls).lang))

\* main, lines 323-324: the one temp directory, resolved once
tmpdir == "duckdb_tmp"

\* mutant: one job per file
Jobs_PerFile(fls) ==
  [j \in DOMAIN fls |-> [lang |-> fls[j].lang, files |-> <<fls[j]>>, tmpdir |-> tmpdir]]

\* main, lines 328-348: by_lang, then one job per language
Jobs(fls) ==
  [j \in DOMAIN LangsOf(fls) |->
     [lang |-> LangsOf(fls)[j],
      files |-> SelectSeq(fls, LAMBDA f : f.lang = LangsOf(fls)[j]),
      tmpdir |-> tmpdir]]

\* mutant: the files are taken in the order of the list
SortedByKey_Unsorted(fls) == fls

\* process_lang, line 264: sorted(files, key=(year, month))
RECURSIVE SortedByKey(_)
SortedByKey(fls) ==
  IF fls = <<>> THEN <<>>
  ELSE LET m == CHOOSE i \in DOMAIN fls :
                  /\ \A j \in DOMAIN fls : fls[i].ym <= fls[j].ym
                  /\ \A j \in 1..(i - 1) : fls[j].ym # fls[i].ym
       IN <<fls[m]>> \o SortedByKey(SubSeq(fls, 1, m - 1) \o SubSeq(fls, m + 1, Len(fls)))

\* dim_path_for and outputs_for of a language
LangDimPath(lang) == <<lang, 0, "dict">>
LangOutputs(lang, ym) == <<lang, ym, "facts">>
\* out_file.with_suffix(out_file.suffix + ".tmp")
TmpOf(path) == <<path, "tmp">>

\* the file a lane is writing
Writing(j) ==
  IF lane[j].at = "dict" THEN LangDimPath(jobs[j].lang)
  ELSE IF lane[j].at = "facts" THEN LangOutputs(jobs[j].lang, lane[j].order[lane[j].i].ym)
  ELSE NoPath

\* a job no worker has taken
Pending == [st |-> "pending", order |-> <<>>, i |-> 1, at |-> "idle", done |-> {},
            processed |-> 0, skipped |-> 0]

\* what the lanes leave alone
session == <<run, flags, idx, pc, cp, counters, to_write, src_rows, tables, files, history>>

\* mutant: no return when no file is left
MainGlob_NoReturn ==
  /\ mpc = "start"
  /\ workers' \in 1..MaxWorkers
  /\ arg_lang' \in {NoLang} \cup Langs
  /\ silver_root' \in BOOLEAN
  /\ silver' \in IF silver_root' THEN SUBSET AllSilver ELSE {{}}
  /\ \E listed \in Perms(silver') : silver_files' = LangFilter(listed, arg_lang')
  /\ mpc' = "dirs"
  /\ UNCHANGED <<insights, session, faults, dirs, jobs, lane, await, total, summary, written>>

\* main, lines 302-320: the arguments, the glob and the filters; with no
\* file left main returns
MainGlob ==
  /\ mpc = "start"
  /\ workers' \in 1..MaxWorkers
  /\ arg_lang' \in {NoLang} \cup Langs
  /\ silver_root' \in BOOLEAN
  /\ silver' \in IF silver_root' THEN SUBSET AllSilver ELSE {{}}
  /\ \E listed \in Perms(silver') : silver_files' = LangFilter(listed, arg_lang')
  /\ mpc' = IF silver_files' = <<>> THEN "done" ELSE "dirs"
  /\ UNCHANGED <<insights, session, faults, dirs, jobs, lane, await, total, summary, written>>

\* lines 322-325: ensure_dir(gold_dir), ensure_dir(tmpdir)
MainEnsureDirs ==
  /\ mpc = "dirs"
  /\ dirs' = {"gold", "tmp"}
  /\ mpc' = "group"
  /\ UNCHANGED <<insights, session, faults, workers, arg_lang, silver_root, silver, silver_files,
                 jobs, lane, await, total, summary, written>>

\* lines 328-348: group by language; parse_partition_from_path may raise
MainGroup ==
  /\ mpc = "group"
  /\ IF \E i \in DOMAIN silver_files : ParseRaises(silver_files[i])
       THEN /\ mpc' = "aborted"
            /\ UNCHANGED <<jobs, lane>>
       ELSE /\ jobs' = Jobs(silver_files)
            /\ lane' = [j \in DOMAIN jobs' |-> Pending]
            /\ mpc' = "run"
  /\ UNCHANGED <<insights, session, faults, workers, arg_lang, silver_root, silver, silver_files,
                 dirs, await, total, summary, written>>

Running == {j \in DOMAIN lane : lane[j].st = "running"}

\* a worker of the pool takes the next job (workers > 1), or main calls
\* process_lang itself (line 358); the files are sorted
LaneOpen(j) ==
  /\ lane[j].st = "pending"
  /\ IF workers > 1
       THEN /\ mpc \in {"run", "aborted"}
            /\ Cardinality(Running) < workers
            /\ \A i \in 1..(j - 1) : lane[i].st # "pending"
       ELSE mpc = "run" /\ j = await
  /\ lane' = [lane EXCEPT ![j].st = "running", ![j].order = SortedByKey(jobs[j].files)]
  /\ UNCHANGED <<insights, session, faults, mpc, workers, arg_lang, silver_root, silver,
                 silver_files, dirs, jobs, await, total, summary, written>>

AtPartition(j) == lane[j].st = "running" /\ lane[j].i <= Len(lane[j].order)
Current(j) == lane[j].order[lane[j].i].ym

\* run_one_partition returns "skipped": every artifact exists
PartitionSkipped(j) ==
  /\ AtPartition(j) /\ lane[j].at = "idle"
  /\ lane' = [lane EXCEPT ![j].skipped = @ + 1, ![j].done = @ \cup {Current(j)},
                          ![j].i = @ + 1]
  /\ UNCHANGED <<insights, session, faults, mpc, workers, arg_lang, silver_root, silver,
                 silver_files, dirs, jobs, await, total, summary, written>>

\* run_one_partition goes on to the dictionary
PartitionStart(j) ==
  /\ AtPartition(j) /\ lane[j].at = "idle"
  /\ lane' = [lane EXCEPT ![j].at = "dict"]
  /\ UNCHANGED <<insights, session, faults, mpc, workers, arg_lang, silver_root, silver,
                 silver_files, dirs, jobs, await, total, summary, written>>

\* update_dim_with_partition has persisted the dictionary
PartitionDict(j) ==
  /\ AtPartition(j) /\ lane[j].at = "dict"
  /\ written' = written \cup {Writing(j)}
  /\ lane' = [lane EXCEPT ![j].at = "facts"]
  /\ UNCHANGED <<insights, session, faults, mpc, workers, arg_lang, silver_root, silver,
                 silver_files, dirs, jobs, await, total, summary>>

\* compute_and_write_outputs is done, "processed" is returned
PartitionEnd(j) ==
  /\ AtPartition(j) /\ lane[j].at = "facts"
  /\ written' = written \cup {Writing(j)}
  /\ lane' = [lane EXCEPT ![j].at = "idle", ![j].processed = @ + 1,
                          ![j].done = @ \cup {Current(j)}, ![j].i = @ + 1]
  /\ UNCHANGED <<insights, session, faults, mpc, workers, arg_lang, silver_root, silver,
                 silver_files, dirs, jobs, await, total, summary>>

\* run_one_partition raises an Exception; lines 269-272 count it as skipped
PartitionRaises(j) ==
  /\ AtPartition(j) /\ lane[j].at \in {"dict", "facts"}
  /\ faults < MaxFaults
  /\ faults' = faults + 1
  /\ lane' = [lane EXCEPT ![j].at = "idle", ![j].skipped = @ + 1,
                          ![j].done = @ \cup {Current(j)}, ![j].i = @ + 1]
  /\ UNCHANGED <<insights, session, mpc, workers, arg_lang, silver_root, silver,
                 silver_files, dirs, jobs, await, total, summary, written>>

\* an error leaves process_lang: duckdb.connect or a PRAGMA raises (lines
\* 256-262), something that is not an Exception is raised in the loop, or the
\* worker process dies
LaneEscapes(j) ==
  /\ lane[j].st = "running"
  /\ faults < MaxFaults
  /\ faults' = faults + 1
  /\ lane' = [lane EXCEPT ![j].st = "raised", ![j].at = "idle"]
  /\ UNCHANGED <<insights, session, mpc, workers, arg_lang, silver_root, silver,
                 silver_files, dirs, jobs, await, total, summary, written>>

\* line 273: return processed, skipped
LaneReturn(j) ==
  /\ lane[j].st = "running" /\ lane[j].i > Len(lane[j].order)
  /\ lane' = [lane EXCEPT ![j].st = "returned"]
  /\ UNCHANGED <<insights, session, faults, mpc, workers, arg_lang, silver_root, silver,
                 silver_files, dirs, jobs, await, total, summary, written>>

\* lines 353-355 and 358-360: the next result, in the order of the jobs
MainCollect ==
  /\ mpc = "run" /\ await <= Len(jobs)
  /\ lane[await].st = "returned"
  /\ total' = [processed |-> total.processed + lane[await].processed,
               skipped |-> total.skipped + lane[await].skipped]
  /\ await' = await + 1
  /\ UNCHANGED <<insights, session, faults, mpc, workers, arg_lang, silver_root, silver,
                 silver_files, dirs, jobs, lane, summary, written>>

\* the awaited call raised: the exception leaves main.  With a pool the
\* iterator of ex.map cancels the jobs no worker has taken; those already
\* handed to a worker still run, and the pool waits for them.
MainRaises ==
  /\ mpc = "run" /\ await <= Len(jobs)
  /\ lane[await].st = "raised"
  /\ mpc' = "aborted"
  /\ \E taken \in SUBSET {j \in DOMAIN lane : lane[j].st = "pending"} :
       /\ workers <= 1 => taken = {}
       /\ lane' = [j \in DOMAIN lane |->
                     IF lane[j].st = "pending" /\ j \notin taken
                       THEN [lane[j] EXCEPT !.st = "cancelled"]
                       ELSE lane[j]]
  /\ UNCHANGED <<insights, session, faults, workers, arg_lang, silver_root, silver,
                 silver_files, dirs, jobs, await, total, summary, written>>

\* lines 362-363: the summary
MainSummary ==
  /\ mpc = "run" /\ await > Len(jobs)
  /\ summary' = TRUE
  /\ mpc' = "done"
  /\ UNCHANGED <<insights, session, faults, workers, arg_lang, silver_root, silver,
                 silver_files, dirs, jobs, lane, await, total, written>>

LaneOpens == \E j \in DOMAIN lane : LaneOpen(j)
PartitionSkips == \E j \in DOMAIN lane : PartitionSkipped(j)
PartitionStarts == \E j \in DOMAIN lane : PartitionStart(j)
PartitionDicts == \E j \in DOMAIN lane : PartitionDict(j)
PartitionEnds == \E j \in DOMAIN lane : PartitionEnd(j)
PartitionFails == \E j \in DOMAIN lane : PartitionRaises(j)
LaneFails == \E j \in DOMAIN lane : LaneEscapes(j)
LaneReturns == \E j \in DOMAIN lane : LaneReturn(j)

NextLanes ==
  \/ MainGlob
  \/ MainEnsureDirs
  \/ MainGroup
  \/ LaneOpens
  \/ PartitionSkips
  \/ PartitionStarts
  \/ PartitionDicts
  \/ PartitionEnds
  \/ PartitionFails
  \/ LaneFails
  \/ LaneReturns
  \/ MainCollect
  \/ MainRaises
  \/ MainSummary

SpecLanes == Init /\ [][NextLanes]_vars

\* ------------------------------------------------------------ a corrupt dictionary
\* between two runs the dictionary file of the language is damaged, or a file
\* that is no parquet file is put at its path
DictionaryCorrupted ==
  /\ pc = "idle" /\ run < MaxRuns
  /\ fs[dim_path_for] # Corrupt
  /\ fs' = [fs EXCEPT ![dim_path_for] = Corrupt]
  /\ UNCHANGED <<insights, pool, run, flags, idx, pc, cp, counters, faults, to_write, src_rows,
                 tables, tmp, history>>

\* mutant: a dictionary that cannot be read is taken as empty
LoadOrInitDimFails_TakenAsEmpty ==
  /\ pc = "load" /\ fs[dim_path_for] = Corrupt
  /\ dim' = {} /\ dim_idx' = {}
  /\ pc' = "update"
  /\ UNCHANGED <<insights, pool, run, flags, idx, cp, counters, faults, to_write, src_rows, s,
                 dim_merged, files, history>>

\* load_or_init_dim, lines 87-93: the file exists with a size > 0 and
\* read_parquet raises; run_one_partition lets the exception through
LoadOrInitDimFails ==
  /\ pc = "load" /\ fs[dim_path_for] = Corrupt
  /\ pc' = "except"
  /\ UNCHANGED <<insights, pool, run, flags, idx, cp, counters, faults, to_write, src_rows, tables,
                 files, history>>

Next ==
  \/ Main
  \/ ProcessLangReturn
  \/ RunOnePartition
  \/ ReadSilver
  \/ ReadSilverFails
  \/ LoadOrInitDim
  \/ UpdateDimWithPartition
  \/ AcUnlinkTmp
  \/ AcCopyBegin
  \/ AcCopyEnd
  \/ AcCopyFails
  \/ AcUnlinkOut
  \/ AcRename
  \/ AcRenameFails
  \/ RefreshDim
  \/ ComputeAndWriteOutputs
  \/ ReturnProcessed
  \/ HandleException

Spec == Init /\ [][Next]_vars

NextCorrupt ==
  \/ Next
  \/ DictionaryCorrupted
  \/ LoadOrInitDimFails

SpecCorrupt == Init /\ [][NextCorrupt]_vars

\* ------------------------------------------------------------ build_gold_specifics: title columns
\* a column name <prefix>_<suffix> is the pair of its parts
Col(prefix, suffix) == <<prefix, suffix>>

NullExpr == [expr |-> "NULL", col |-> <<>>]

\* mutant: the name column is probed before the title column
title_expr_NameFirst(cols, prefix) ==
  IF Col(prefix, "name") \in cols THEN [expr |-> "column", col |-> Col(prefix, "name")]
  ELSE IF Col(prefix, "title") \in cols THEN [expr |-> "column", col |-> Col(prefix, "title")]
  ELSE IF Col(prefix, "id") \in cols THEN [expr |-> "cast", col |-> Col(prefix, "id")]
  ELSE NullExpr

\* title_expr: <prefix>_title, else <prefix>_name, else
\* CAST(<prefix>_id AS VARCHAR), else the literal NULL
title_expr(cols, prefix) ==
  IF Col(prefix, "title") \in cols THEN [expr |-> "column", col |-> Col(prefix, "title")]
  ELSE IF Col(prefix, "name") \in cols THEN [expr |-> "column", col |-> Col(prefix, "name")]
  ELSE IF Col(prefix, "id") \in cols THEN [expr |-> "cast", col |-> Col(prefix, "id")]
  ELSE NullExpr

\* ------------------------------------------------------------ build_gold_specifics: main
NumInsightLangs == 2

\* the five builders, in the order main calls them
Builders == <<"top10_by_year", "all_time_top", "trending_mom", "edges_6m", "referrers_6m">>

\* src of each builder
TopicOf(step) ==
  IF step \in {"edges_6m", "referrers_6m"} THEN "edges" ELSE "popularity"

\* the prefixes each builder passes to title_expr
PrefixesOf(step) ==
  IF step \in {"edges_6m", "referrers_6m"} THEN {"prev", "curr"} ELSE {"curr"}

\* a GOLD topic of one language: its glob matches no file, or files without
\* rows, or files with rows; the columns parquet_columns reads
TopicFiles(colsets) ==
  {[st |-> "missing", cols |-> {}]} \cup [st : {"empty", "data"}, cols : colsets]

\* the sources a language may have
GoldSources ==
  [popularity : TopicFiles({{Col("curr", k) : k \in ks} : ks \in SUBSET {"title", "name", "id"}}),
   edges : TopicFiles({{Col("prev", k) : k \in ks} \cup {Col("curr", k) : k \in js}
                         : ks \in SUBSET {"name", "id"}, js \in SUBSET {"id"}})]

\* what a builder does: read_parquet raises when the glob matches no file;
\* [WARN] no data; [SKIP] when out exists and not overwrite, which
\* build_all_time_top tests first of all and the other builders after the
\* data; [WARN] when title_expr gives NULL; else the output is written
Outcome(step, src, out_exists, ow) ==
  LET unresolved == \E pre \in PrefixesOf(step) : title_expr(src.cols, pre) = NullExpr
      skip == out_exists /\ ~ow
  IN IF step = "all_time_top" /\ skip THEN "skip"
     ELSE IF src.st = "missing" THEN "raised"
     ELSE IF src.st = "empty" THEN "nodata"
     ELSE IF step = "top10_by_year" /\ unresolved THEN "nocolumn"
     ELSE IF skip THEN "skip"
     ELSE IF unresolved THEN "nocolumn"
     ELSE "written"

\* the builder that main calls after one, or the end of the loop body
After(step) ==
  IF step = Builders[Len(Builders)] THEN "next_lang"
  ELSE Builders[(CHOOSE i \in DOMAIN Builders : Builders[i] = step) + 1]

\* main, lines 338-372: the arguments, the connection, langs; the first
\* language of the loop
InsightsMain ==
  /\ ipc = "start"
  /\ overwrite' \in BOOLEAN
  /\ ilang' = 1
  /\ gold_src' \in GoldSources
  /\ ipc' = Builders[1]
  /\ UNCHANGED <<session, faults, pool, iwritten, iwarned, ilast, e6_src, e6_out, topn_pairs>>

\* one call of a builder from the loop of main; an exception of the builder
\* leaves main through the finally clause
Build(step) ==
  /\ ipc = step
  /\ \E out_exists \in BOOLEAN :
       LET src == gold_src[TopicOf(step)]
           o == Outcome(step, src, out_exists, overwrite)
           expr(pre) == IF o = "written" /\ pre \in PrefixesOf(step)
                          THEN title_expr(src.cols, pre) ELSE NullExpr
       IN /\ ilast' = [lang |-> ilang, step |-> step, outcome |-> o,
                       curr |-> expr("curr"), prev |-> expr("prev")]
          /\ ipc' = IF o = "raised" THEN "crashed" ELSE After(step)
          /\ iwritten' = IF o = "written" THEN iwritten \cup {<<ilang, step>>} ELSE iwritten
          /\ iwarned' = IF o = "nocolumn" THEN iwarned \cup {<<ilang, step>>} ELSE iwarned
  /\ UNCHANGED <<session, faults, pool, ilang, overwrite, gold_src, e6_src, e6_out,
                 topn_pairs>>

BuildTop10ByYear == Build("top10_by_year")
BuildAllTimeTop == Build("all_time_top")
BuildTrendingMom == Build("trending_mom")
BuildEdges6m == Build("edges_6m")
BuildReferrers6m == Build("referrers_6m")

\* main, line 374: for lang in langs
InsightsNextLang ==
  /\ ipc = "next_lang"
  /\ IF ilang < NumInsightLangs
       THEN /\ ilang' = ilang + 1
            /\ gold_src' \in GoldSources
            /\ ipc' = Builders[1]
       ELSE /\ ipc' = "done"
            /\ UNCHANGED <<ilang, gold_src>>
  /\ UNCHANGED <<session, faults, pool, overwrite, iwritten, iwarned, ilast, e6_src, e6_out,
                 topn_pairs>>

NextInsights ==
  \/ InsightsMain
  \/ BuildTop10ByYear
  \/ BuildAllTimeTop
  \/ BuildTrendingMom
  \/ BuildEdges6m
  \/ BuildReferrers6m
  \/ InsightsNextLang

SpecInsights == Init /\ [][NextInsights]_vars

\* ------------------------------------------------------------ build_edges_6m over the rows
MaxTransitions == 2
MaxPairs == 2

\* the (prev_id, curr_id) pairs of the edge fact
EdgePairs == {<<1, 2>>, <<2, 1>>}

\* the columns aggregate_gold gives edges_monthly
EdgesMonthlyCols ==
  {<<"lang">>, <<"year">>, <<"month">>,
   Col("prev", "id"), Col("curr", "id"), Col("total", "transitions")}

\* an edges_monthly file: none, or one row per pair that has transitions
EdgeMonthFiles ==
  {Absent} \cup
  {Complete({[prev_id |-> g[1], curr_id |-> g[2], total_transitions |-> c[g]]
               : g \in {h \in EdgePairs : c[h] > 0}})
     : c \in [EdgePairs -> 0..MaxTransitions]}

\* read_parquet(src, hive_partitioning=true): the rows of the files the glob
\* matches, with the year and the month of their directories
ReadEdges(src) ==
  UNION {{[year |-> p[1], month |-> p[2], prev_id |-> r.prev_id, curr_id |-> r.curr_id,
           total_transitions |-> r.total_transitions] : r \in src[p].rows}
           : p \in {q \in DOMAIN src : exists(src[q])}}

\* make_date(year, month, 1)
make_date(y, m) == <<y, m>>

DateLess(a, b) == a[1] < b[1] \/ (a[1] = b[1] /\ a[2] < b[2])

\* (None, None)
NoPeriod == <<0, 0>>

\* latest_period: MAX(make_date(year, month, 1)) over the rows, (None, None)
\* when there is no row
latest_period(rows) ==
  IF rows = {} THEN NoPeriod
  ELSE CHOOSE d \in {make_date(r.year, r.month) : r \in rows} :
         \A r \in rows : ~DateLess(d, make_date(r.year, r.month))

\* date - INTERVAL k MONTH, for a first day of a month
RECURSIVE MinusMonths(_, _)
MinusMonths(d, k) ==
  IF k = 0 THEN d
  ELSE MinusMonths(IF d[2] = 1 THEN <<d[1] - 1, 12>> ELSE <<d[1], d[2] - 1>>, k - 1)

\* date + INTERVAL 1 MONTH
PlusMonth(d) == IF d[2] = 12 THEN <<d[1] + 1, 1>> ELSE <<d[1], d[2] + 1>>

\* generate_series(start, stop, INTERVAL 1 MONTH)
RECURSIVE generate_series(_, _)
generate_series(start, stop) ==
  IF DateLess(stop, start) THEN <<>>
  ELSE <<start>> \o generate_series(PlusMonth(start), stop)

\* mutant: the months of the year of the latest period only
last6_SameYear(y, m) == {<<y, k>> : k \in (IF m > 5 THEN m - 5 ELSE 1)..m}

\* the CTE last6
last6(y, m) == Range(generate_series(MinusMonths(make_date(y, m), 5), make_date(y, m)))

\* CAST(id AS VARCHAR): the decimal digits
RECURSIVE Varchar(_)
Varchar(n) == IF n < 10 THEN <<48 + n>> ELSE Varchar(n \div 10) \o <<48 + (n % 10)>>

RECURSIVE SumTransitions(_)
SumTransitions(rows) ==
  IF rows = {} THEN 0
  ELSE LET r == CHOOSE x \in rows : TRUE
       IN r.total_transitions + SumTransitions(rows \ {r})

\* the query of build_edges_6m before ORDER BY and LIMIT: the rows of the
\* months of last6, summed by (prev_title, curr_title)
Edges6mRows(rows, y, m) ==
  LET d == {r \in rows : <<r.year, r.month>> \in last6(y, m)}
  IN {[prev_title |-> Varchar(g[1]), curr_title |-> Varchar(g[2]),
       transitions_6m |-> SumTransitions({r \in d : r.prev_id = g[1] /\ r.curr_id = g[2]})]
        : g \in {<<r.prev_id, r.curr_id>> : r \in d}}

\* ORDER BY transitions_6m DESC LIMIT topn_pairs: the row sets the engine may
\* keep, rows with equal sums having no order among them
Edges6mOutcomes(grouped, limit) ==
  LET part == [r \in grouped |-> 0]
      key == [r \in grouped |-> r.transitions_6m]
  IN {{r \in grouped : f[r] <= limit} : f \in RowNumberings(grouped, part, key)}

\* one language whose edges_monthly files are drawn; an edges_6m tree that
\* is empty or holds the files of an earlier run
InitEdges6m ==
  /\ LaneInit /\ PoolInit
  /\ ipc = "edges6m" /\ ilang = 1 /\ overwrite \in BOOLEAN
  /\ gold_src = NoSource /\ iwritten = {} /\ iwarned = {} /\ ilast = NoOutcome
  /\ e6_src \in [EdgePeriods -> EdgeMonthFiles]
  /\ e6_out \in {[p \in EdgePeriods |-> Absent], [p \in EdgePeriods |-> Complete({})]}
  /\ topn_pairs \in 1..MaxPairs

\* build_edges_6m, with atomic_copy_query_to_parquet taken as one step
BuildEdges6mOn ==
  /\ ipc = "edges6m"
  /\ LET rows == ReadEdges(e6_src)
         ym == latest_period(rows)
         prev_title_sql == title_expr(EdgesMonthlyCols, "prev")
         curr_title_sql == title_expr(EdgesMonthlyCols, "curr")
         return(o) == /\ ipc' = "done"
                      /\ ilast' = [NoOutcome EXCEPT !.lang = ilang, !.step = "edges_6m",
                                                    !.outcome = o]
     IN IF \A p \in EdgePeriods : ~exists(e6_src[p])
          THEN \* the glob matches no file: read_parquet raises
               /\ ipc' = "crashed"
               /\ ilast' = [NoOutcome EXCEPT !.lang = ilang, !.step = "edges_6m",
                                             !.outcome = "raised"]
               /\ UNCHANGED e6_out
        ELSE IF ym = NoPeriod
          THEN return("nodata") /\ UNCHANGED e6_out
        ELSE IF exists(e6_out[ym]) /\ ~overwrite
          THEN return("skip") /\ UNCHANGED e6_out
        ELSE IF prev_title_sql = NullExpr \/ curr_title_sql = NullExpr
          THEN return("nocolumn") /\ UNCHANGED e6_out
        ELSE /\ return("written")
             /\ \E kept \in Edges6mOutcomes(Edges6mRows(rows, ym[1], ym[2]), topn_pairs) :
                  e6_out' = [e6_out EXCEPT ![ym] = Complete(kept)]
  /\ UNCHANGED <<session, faults, pool, ilang, overwrite, gold_src, iwritten, iwarned,
                 e6_src, topn_pairs>>

SpecEdges6m == InitEdges6m /\ [][BuildEdges6mOn]_vars

\* ------------------------------------------------------------ properties
DictFile == fs[dim_path_for]
DictTitles == {d.title : d \in DictFile.rows}
FactPaths == Paths \ {dim_path_for}
InCall == pc \notin {"idle", "loop"}

\* the titles of a set of silver rows, NULLs left out
TitlesIn(rows) ==
  {r.curr_title[1] : r \in {x \in Range(rows) : x.curr_title # Null}}
    \cup {r.prev_title[1] : r \in {x \in Range(rows) : x.prev_title # Null}}

\* C1 (id stability, append-only): every row a persisted dictionary of the
\* language has ever held is a row of every later persisted dictionary, and
\* no later persisted dictionary gives its id to another title or its title
\* another id.
C1_IdStability ==
  exists(DictFile) =>
    \A r \in published :
      /\ r \in DictFile.rows
      /\ \A d \in DictFile.rows : (d.id = r.id) <=> (d.title = r.title)

\* C2 (bijectivity): the persisted dictionary never holds two rows with the
\* same title nor two rows with the same id.
C2_Bijective ==
  \A d, e \in DictFile.rows : (d.title = e.title \/ d.id = e.id) => d = e

\* C2 witness: a dictionary that was loaded with one row has been persisted
\* with two.
C2_Witness ==
  /\ pc = "refresh"
  /\ Cardinality(dim) = 1
  /\ Cardinality(DictFile.rows) = 2

\* C3 (merge): the rows the merge adds are the k distinct titles of the
\* partition that the dictionary does not hold, with exactly the ids
\* base + 1 .. base + k in ascending lexicographic order of title, where
\* base is the largest id of the dictionary (0 when it is empty); the rows of
\* the dictionary are kept.  The added rows therefore depend only on the set
\* of new titles and on base, not on the order or number of their
\* occurrences in the rows of the partition.
C3_MergeAssignsNextIds ==
  LET old == {d.title : d \in dim}
      new == TitlesIn(s) \ old
      added == dim_merged \ dim
      k == Cardinality(new)
  IN \E base \in 0..Cardinality(dim) :
       /\ \A d \in dim : d.id <= base
       /\ dim = {} => base = 0
       /\ dim # {} => \E d \in dim : d.id = base
       /\ dim \subseteq dim_merged
       /\ {d.title : d \in added} = new
       /\ {d.id : d \in added} = (base + 1)..(base + k)
       /\ Cardinality(added) = k
       /\ \A d, e \in added : TitleLess(d.title, e.title) => d.id < e.id

\* C3 witness: a dictionary with rows is merged with a partition that brings
\* two new titles, the larger one met first.
C3_Witness ==
  /\ dim # {}
  /\ Cardinality(dim_merged \ dim) = 2
  /\ \E i, j \in DOMAIN PartTitlesAll(s) :
       /\ i < j
       /\ {PartTitlesAll(s)[i], PartTitlesAll(s)[j]} = {d.title : d \in dim_merged \ dim}
       /\ TitleLess(PartTitlesAll(s)[j], PartTitlesAll(s)[i])

\* C4 as stated (dictionary coverage): when run_one_partition is about to
\* return "processed", every title of the partition's input rows has exactly
\* one row in the persisted dictionary.
C4_CoverageOfInput ==
  pc = "return" =>
    \A t \in TitlesIn(src_rows) :
      Cardinality({d \in DictFile.rows : d.title = t}) = 1

\* C4 amended: when run_one_partition is about to return "processed", every
\* curr_title and non-null prev_title of an input row with count > 0 has
\* exactly one row in the persisted dictionary.
C4_Coverage ==
  pc = "return" =>
    /\ exists(DictFile)
    /\ \A t \in TitlesIn(SelectSeq(src_rows, LAMBDA r : r.n > 0)) :
         Cardinality({d \in DictFile.rows : d.title = t}) = 1

\* C4 witness: a processed partition with a row of count > 0 that has a
\* referrer other than its article.
C4_Witness ==
  /\ pc = "return"
  /\ \E i \in DOMAIN src_rows :
       /\ src_rows[i].n > 0
       /\ src_rows[i].prev_title # Null
       /\ src_rows[i].curr_title # Null
       /\ src_rows[i].prev_title # src_rows[i].curr_title

\* C5 (ordering): a fact artifact of a partition, or its temporary file, is
\* written only while that partition is processed, after the dictionary has
\* been renamed into place in the same call, and that dictionary holds every
\* title of the partition.
C5_FactsAfterDictionary ==
  [][\A q \in FactPaths :
       (fs'[q] # fs[q] \/ tmp'[q] # tmp[q]) =>
         /\ q[1] = idx /\ InCall
         /\ dim_path_for \in wrote
         /\ exists(DictFile)
         /\ PartTitles(s) \subseteq DictTitles]_vars

\* C5 witness: a fact artifact is about to be renamed into place for a
\* partition that has titles.
C5_Witness ==
  /\ pc = "ac_rename" /\ cp \in FactPaths
  /\ PartTitles(s) # {}

\* C6 (persist failure): when the persist of the dictionary raises, no fact
\* artifact has been computed or written in the call, the handler counts the
\* partition as skipped and the loop goes on with the next partition.
C6_PersistFailure ==
  [][(pc = "except" /\ cp = dim_path_for) =>
       /\ copied \subseteq {dim_path_for} /\ wrote \subseteq {dim_path_for}
       /\ skipped' = skipped + 1 /\ processed' = processed
       /\ idx' = idx + 1 /\ pc' = "loop"
       /\ \A q \in FactPaths : fs'[q] = fs[q] /\ tmp'[q] = tmp[q]]_vars

\* C6 witness: the persist of the dictionary has raised and a later partition
\* is left in the list.
C6_Witness ==
  /\ pc = "except" /\ cp = dim_path_for
  /\ idx < NumParts

\* C7 (idempotence): in a run with skip-existing that follows a run in which
\* no partition raised and which had the same artifacts enabled, no file and
\* no temporary file is written.
C7_Idempotent ==
  [][(/\ InCall \/ pc = "loop"
      /\ run >= 2 /\ skip_existing /\ last.clean
      /\ write_edges => last.edges
      /\ write_ref => last.ref) => UNCHANGED <<fs, tmp>>]_vars

\* C7 witness: such a second run has gone through all its partitions, after a
\* first run that published a dictionary with rows.
C7_Witness ==
  /\ pc = "loop" /\ idx > NumParts
  /\ run >= 2 /\ skip_existing /\ last.clean
  /\ write_edges => last.edges
  /\ write_ref => last.ref
  /\ skipped = NumParts
  /\ DictFile.rows # {}

\* C8 (skip): with skip-existing, when no artifact of the partition is
\* missing, run_one_partition returns "skipped": no file, no temporary file
\* and no table of the session changes.
C8_SkipTouchesNothing ==
  [][(/\ pc = "loop" /\ idx <= NumParts
      /\ skip_existing
      /\ missing_outputs(fs, idx) = {}) =>
       /\ UNCHANGED <<fs, tmp, s, dim, dim_idx, dim_merged>>
       /\ skipped' = skipped + 1 /\ processed' = processed
       /\ pc' = "loop" /\ idx' = idx + 1]_vars

\* C8 witness: the loop is at a partition all of whose artifacts exist, in a
\* run with skip-existing, and a dictionary is published.
C8_Witness ==
  /\ pc = "loop" /\ idx <= NumParts
  /\ skip_existing
  /\ missing_outputs(fs, idx) = {}
  /\ exists(DictFile)

\* C9 as stated (write only what is missing): with skip-existing, an artifact
\* of the partition that is not in to_write is not rewritten; without
\* skip-existing, every enabled artifact has been written when the call
\* returns "processed".
C9_OnlyMissingWritten ==
  [][/\ (InCall /\ skip_existing) =>
          \A a \in ArtifactSet \ to_write : fs'[outputs_for(idx)[a]] = fs[outputs_for(idx)[a]]
     /\ (pc = "return" /\ ~skip_existing) =>
          \A a \in Range(WriteOrder(write_edges, write_ref)) : outputs_for(idx)[a] \in wrote]_vars

\* C10 (atomic persist): the final path of the dictionary never holds a
\* partially written file; the COPY starts on a temporary path that holds no
\* file; the final path changes only by losing its file or by the rename of
\* a completely written temporary file.
C10_AtomicPersist ==
  [][/\ DictFile.st # "partial" /\ fs'[dim_path_for].st # "partial"
     /\ (tmp'[dim_path_for] # tmp[dim_path_for] /\ tmp'[dim_path_for].st = "partial")
          => ~exists(tmp[dim_path_for])
     /\ (fs'[dim_path_for] # DictFile /\ exists(fs'[dim_path_for]))
          => (tmp[dim_path_for].st = "complete" /\ fs'[dim_path_for] = tmp[dim_path_for])]_vars

\* C10 witness: the temporary file of the dictionary is partially written
\* while a dictionary with rows is published at the final path.
C10_Witness ==
  /\ tmp[dim_path_for].st = "partial"
  /\ exists(DictFile) /\ DictFile.rows # {}

\* ------------------------------------------------------------ properties of the facts
PopFile == fs[outputs_for(1)["article_popularity"]]
TopFile == fs[outputs_for(1)["article_top"]]
RefFile == fs[outputs_for(1)["referrers_top"]]
EdgesFile == fs[outputs_for(1)["edges_monthly"]]

\* the sum of a field over a set of rows with distinct keys
RECURSIVE SumClicks(_)
SumClicks(rows) ==
  IF rows = {} THEN 0
  ELSE LET r == CHOOSE x \in rows : TRUE IN r.total_clicks + SumClicks(rows \ {r})

\* the sum of count over the records of a file with a non-null curr_title
RECURSIVE SumCount(_)
SumCount(rows) ==
  IF rows = <<>> THEN 0
  ELSE (IF Head(rows).curr_title # Null THEN Head(rows).n ELSE 0) + SumCount(Tail(rows))

\* C11 (conservation): for a processed partition, the sum of total_clicks
\* over the rows of article_popularity equals the sum of count over the input
\* records with a non-null curr_title.
C11_Conservation ==
  processed = 1 =>
    /\ PopFile.st = "complete"
    /\ SumClicks(PopFile.rows) = SumCount(src_rows)

\* C11 witness: a processed partition with two records of the same article,
\* one with a referrer and one without, both with a count > 0.
C11_Witness ==
  /\ processed = 1
  /\ Len(src_rows) = 2
  /\ src_rows[1].curr_title # Null /\ src_rows[1].curr_title = src_rows[2].curr_title
  /\ src_rows[1].prev_title = Null /\ src_rows[2].prev_title # Null
  /\ src_rows[1].n > 0 /\ src_rows[2].n > 0

\* C13 (boundary): processing a partition all of whose records have count 0
\* leaves the dictionary with the entries it had and writes artifacts with
\* no rows.
C13_ZeroCounts ==
  [][(processed' = processed + 1 /\ \A i \in DOMAIN src_rows' : src_rows'[i].n = 0) =>
       /\ fs'[dim_path_for].rows = LoadDim(DictFile)
       /\ \A a \in ArtifactSet : fs'[outputs_for(idx)[a]] = Complete({})]_vars

\* C13 witness: such a partition, with two records that name a title the
\* dictionary does not hold, has been processed over a dictionary with rows.
C13_Witness ==
  /\ processed = 1
  /\ Len(src_rows) = 2
  /\ \A i \in DOMAIN src_rows : src_rows[i].n = 0
  /\ DictFile.rows # {}
  /\ \E t \in TitlesIn(src_rows) : t \notin DictTitles

\* C14 as stated (top-N): article_top holds the topn rows of
\* article_popularity first by total_clicks descending and then by id
\* ascending, each with its rank in that order.
C14_TopNTieBreak ==
  processed = 1 =>
    LET rank(r) == 1 + Cardinality({x \in PopFile.rows :
                          \/ x.total_clicks > r.total_clicks
                          \/ x.total_clicks = r.total_clicks /\ x.curr_id < r.curr_id})
    IN TopFile.rows =
         {[curr_id |-> r.curr_id, total_clicks |-> r.total_clicks, rn |-> rank(r)]
            : r \in {x \in PopFile.rows : rank(x) <= topn}}

\* C12 (end-to-end scenario): the partition with the records (null, Paris,
\* 100), (Paris, London, 50) and (null, London, 30), each once and in any
\* order, processed from an empty dictionary, gives the dictionary
\* {1: London, 2: Paris}, the popularity rows (2, 100) and (1, 80), Paris
\* ranked 1 and London ranked 2 in article_top when topn >= 2, the single
\* edge (2, 1, 50) and for curr_id 1 the rank-1 referrer 2 with 50 clicks.
C12_Scenario ==
  (/\ processed = 1
   /\ Len(src_rows) = 3 /\ Range(src_rows) = ScenarioRecords) =>
    /\ DictFile = Complete({[id |-> 1, title |-> London], [id |-> 2, title |-> Paris]})
    /\ PopFile = Complete({[curr_id |-> 2, total_clicks |-> 100],
                           [curr_id |-> 1, total_clicks |-> 80]})
    /\ topn >= 2 =>
         TopFile = Complete({[curr_id |-> 2, total_clicks |-> 100, rn |-> 1],
                             [curr_id |-> 1, total_clicks |-> 80, rn |-> 2]})
    /\ EdgesFile = Complete({[prev_id |-> 2, curr_id |-> 1, total_transitions |-> 50]})
    /\ {r \in RefFile.rows : r.curr_id = 1 /\ r.rn = 1}
         = {[curr_id |-> 1, prev_id |-> 2, clicks_from_prev |-> 50, rn |-> 1]}

\* C12 witness: the three records have been processed with London's records
\* arriving before that of Paris, with topn = 2.
C12_Witness ==
  /\ processed = 1
  /\ topn = 2
  /\ src_rows = <<[prev_title |-> Null, curr_title |-> <<London>>, n |-> 30],
                  [prev_title |-> <<Paris>>, curr_title |-> <<London>>, n |-> 50],
                  [prev_title |-> Null, curr_title |-> <<Paris>>, n |-> 100]>>

\* ------------------------------------------------------------ properties of main and the lanes
\* the partitions a lane has started
Started(j) ==
  lane[j].done \cup (IF lane[j].at # "idle" THEN {Current(j)} ELSE {})

\* no lane and no call of main can take a step any more
Ended ==
  /\ mpc \in {"done", "aborted"}
  /\ \A j \in DOMAIN lane :
       \/ lane[j].st \in {"returned", "raised", "cancelled"}
       \/ lane[j].st = "pending" /\ workers <= 1

\* C15 (sequencing): in every lane the partitions finish one at a time in
\* ascending (year, month); a partition is started only when every partition
\* of the job with a smaller (year, month) has finished.
C15_Sequencing ==
  /\ \A j \in DOMAIN lane :
       \A y \in Started(j) :
         \A z \in {f.ym : f \in Range(jobs[j].files)} : z < y => z \in lane[j].done
  /\ \A j \in DOMAIN lane :
       lane[j].done = {lane[j].order[i].ym : i \in 1..(lane[j].i - 1)}

\* C15 witness: a lane whose job lists a later partition before an earlier
\* one is at its second partition.
C15_Witness ==
  \E j \in DOMAIN lane :
    /\ lane[j].st = "running" /\ lane[j].at = "dict" /\ lane[j].i = 2
    /\ jobs[j].files[1].ym > jobs[j].files[2].ym

\* C16 (partition failure isolation): an exception raised in
\* run_one_partition is counted as skipped and the loop goes to the next
\* partition; the loop leaves no partition out: at a partition it can only
\* attempt that partition, and it ends only past the last one.
C16_PartitionFailureIsolation ==
  [][/\ pc = "except" =>
          /\ skipped' = skipped + 1 /\ processed' = processed
          /\ idx' = idx + 1 /\ pc' = "loop" /\ run' = run
     /\ (pc = "loop" /\ idx <= NumParts) =>
          \/ pc' = "read" /\ idx' = idx
          \/ pc' = "loop" /\ idx' = idx + 1 /\ skipped' = skipped + 1
     /\ (pc = "loop" /\ pc' = "idle") => idx > NumParts]_vars

\* C16 witness: the partition after one that raised is being read, in the
\* same run.
C16_Witness ==
  /\ pc = "load" /\ idx = NumParts
  /\ failed /\ skipped >= 1

\* C17 as stated (malformed partition): a partition whose year or month is
\* not an integer does not abort the run.
C17_MalformedSkipped ==
  (\E i \in DOMAIN silver_files : ParseRaises(silver_files[i])) => mpc # "aborted"

\* C18 as stated (lane isolation): when the run has ended, every lane that
\* did not raise has processed its partitions and its counts are in the
\* totals of main.
C18_LaneIsolation ==
  Ended =>
    \A j \in DOMAIN lane :
      lane[j].st # "raised" => (lane[j].st = "returned" /\ j < await)

\* C19 (mutual exclusion): no two jobs have the same language, every file is
\* in exactly one job, and two lanes never write the same file nor the same
\* temporary file at the same time.
C19_OneLanePerLanguage ==
  /\ \A i, j \in DOMAIN jobs : i # j => jobs[i].lang # jobs[j].lang
  /\ jobs # <<>> =>
       \A n \in DOMAIN silver_files :
         Cardinality({j \in DOMAIN jobs : silver_files[n] \in Range(jobs[j].files)}) = 1
  /\ \A i, j \in Running :
       (i # j /\ lane[i].at # "idle" /\ lane[j].at # "idle") =>
         /\ Writing(i) # Writing(j)
         /\ TmpOf(Writing(i)) # TmpOf(Writing(j))

\* C19 witness: two lanes are writing their dictionaries at the same time.
C19_Witness ==
  \E i, j \in Running : i # j /\ lane[i].at = "dict" /\ lane[j].at = "dict"

\* C20 (fatal conditions): when the silver root is missing or no file is left
\* after the filters, main returns with no directory created, no job, no
\* lane, and nothing written.
C20_FatalBeforeWork ==
  (mpc # "start" /\ (~silver_root \/ silver_files = <<>>)) =>
    /\ mpc = "done" /\ ~summary
    /\ dirs = {} /\ jobs = <<>> /\ lane = <<>>
    /\ written = {}
    /\ fs = [p \in Paths |-> Absent] /\ tmp = [p \in Paths |-> Absent]

\* C20 witness: main has returned with partitions under the silver root, none
\* of the language asked for.
C20_Witness ==
  /\ mpc = "done" /\ ~summary
  /\ silver # {} /\ arg_lang # NoLang

\* the id the persisted dictionary gives to a title
IdOf(t) == (CHOOSE d \in DictFile.rows : d.title = t).id

\* the (prev_title, curr_title) pairs of the input records that have both
PairsIn(rows) ==
  {<<r.prev_title[1], r.curr_title[1]>> :
     r \in {x \in Range(rows) : x.prev_title # Null /\ x.curr_title # Null}}

\* the sum of count over the records of a file from prev to curr
RECURSIVE SumPair(_, _, _)
SumPair(rows, prev, curr) ==
  IF rows = <<>> THEN 0
  ELSE (IF Head(rows).prev_title = <<prev>> /\ Head(rows).curr_title = <<curr>>
          THEN Head(rows).n ELSE 0) + SumPair(Tail(rows), prev, curr)

\* C23 (edge fact): edges_monthly holds exactly one row for each (prev, curr)
\* pair of the input records with a non-null prev_title whose summed count is
\* at least min_edges, with that sum as total_transitions, and no other row.
C23_EdgeFact ==
  processed = 1 =>
    EdgesFile =
      Complete({[prev_id |-> IdOf(g[1]), curr_id |-> IdOf(g[2]),
                 total_transitions |-> SumPair(src_rows, g[1], g[2])]
                  : g \in {h \in PairsIn(src_rows) :
                             SumPair(src_rows, h[1], h[2]) >= min_edges}})

\* C23 witness: two records of one pair, each below the minimum, reach it
\* together: the file has the row of the pair.
C23_Witness ==
  /\ processed = 1 /\ min_edges = 2
  /\ Len(src_rows) = 2
  /\ src_rows[1] = src_rows[2]
  /\ src_rows[1].prev_title # Null /\ src_rows[1].curr_title # Null
  /\ src_rows[1].n = 1
  /\ Cardinality(EdgesFile.rows) = 1

\* C24 (referrer fact): referrers_top holds for each curr_id at most topm
\* rows, numbered 1.. without gap; each is a referrer of that curr_id with its
\* summed count, which is at least min_ref; a row with a smaller number has no
\* smaller sum; no referrer of at least min_ref left out has a larger sum
\* than one kept for the same curr_id.
C24_ReferrerFact ==
  processed = 1 =>
    LET eligible == {[curr_id |-> IdOf(g[2]), prev_id |-> IdOf(g[1]),
                      clicks_from_prev |-> SumPair(src_rows, g[1], g[2])]
                       : g \in {h \in PairsIn(src_rows) :
                                  SumPair(src_rows, h[1], h[2]) >= min_ref}}
        bare(r) == [curr_id |-> r.curr_id, prev_id |-> r.prev_id,
                    clicks_from_prev |-> r.clicks_from_prev]
        of(c) == {r \in RefFile.rows : r.curr_id = c}
    IN /\ RefFile.st = "complete"
       /\ \A r \in RefFile.rows : bare(r) \in eligible
       /\ \A r, q \in RefFile.rows : bare(r) = bare(q) => r = q
       /\ \A c \in {r.curr_id : r \in eligible} :
            /\ Cardinality(of(c)) <= topm
            /\ Cardinality(of(c)) =
                 IF Cardinality({e \in eligible : e.curr_id = c}) < topm
                   THEN Cardinality({e \in eligible : e.curr_id = c}) ELSE topm
            /\ {r.rn : r \in of(c)} = 1..Cardinality(of(c))
            /\ \A r, q \in of(c) : r.rn < q.rn => r.clicks_from_prev >= q.clicks_from_prev
            /\ \A e \in eligible :
                 (e.curr_id = c /\ \A r \in of(c) : bare(r) # e) =>
                   \A r \in of(c) : e.clicks_from_prev <= r.clicks_from_prev

\* C24 witness: an article with two referrers of different sums, topm = 1:
\* one is left out.
C24_Witness ==
  /\ processed = 1 /\ topm = 1 /\ min_ref = 1
  /\ Len(src_rows) = 2
  /\ src_rows[1].curr_title = src_rows[2].curr_title
  /\ src_rows[1].prev_title # Null /\ src_rows[2].prev_title # Null
  /\ src_rows[1].prev_title # src_rows[2].prev_title
  /\ src_rows[1].n = 1 /\ src_rows[2].n = 2
  /\ Cardinality(RefFile.rows) = 1

\* ------------------------------------------------------------ switches, persist
\* C25 (feature switches): in a run with edges (referrers) disabled no
\* edges_monthly (referrers_top) file and no temporary file of one is
\* written, and under skip-existing a partition that misses nothing but
\* disabled artifacts is skipped.
C25_FeatureSwitches ==
  [][/\ (pc # "idle" /\ ~write_edges) =>
          \A p \in Parts : /\ fs'[<<p, "edges_monthly">>] = fs[<<p, "edges_monthly">>]
                           /\ tmp'[<<p, "edges_monthly">>] = tmp[<<p, "edges_monthly">>]
     /\ (pc # "idle" /\ ~write_ref) =>
          \A p \in Parts : /\ fs'[<<p, "referrers_top">>] = fs[<<p, "referrers_top">>]
                           /\ tmp'[<<p, "referrers_top">>] = tmp[<<p, "referrers_top">>]
     /\ (/\ pc = "loop" /\ idx <= NumParts /\ skip_existing
         /\ \A a \in missing_outputs(fs, idx) :
              \/ a = "edges_monthly" /\ ~write_edges
              \/ a = "referrers_top" /\ ~write_ref) =>
          /\ pc' = "loop" /\ idx' = idx + 1 /\ skipped' = skipped + 1
          /\ fs' = fs /\ tmp' = tmp]_vars

\* C25 witness: under skip-existing, with edges disabled, the loop is at a
\* partition that misses edges_monthly and nothing else.
C25_Witness ==
  /\ pc = "loop" /\ idx <= NumParts
  /\ skip_existing /\ ~write_edges
  /\ missing_outputs(fs, idx) = {"edges_monthly"}

\* C28 as stated (side-effect-free merge): when the persist of the merged
\* dictionary has raised, dim and dim_idx are not the merged dictionary but
\* the one load_or_init_dim gave, and the dictionary file still holds it, so
\* that a retry, which loads the file, starts from it.
C28_MergeLeavesDim ==
  (pc = "except" /\ cp = dim_path_for) =>
    /\ dim_idx = dim
    /\ LoadDim(DictFile) = dim

\* C29 as stated (the dictionary stays published): once a dictionary with
\* rows has been published, a dictionary file with rows is at the final path
\* in every state.
C29_DictionaryStaysPublished ==
  published # {} => (DictFile.st = "complete" /\ DictFile.rows # {})

\* C30 (failing COPY): while the query and the COPY run, and when they
\* raise, no final path changes; when the COPY starts no temporary file is at
\* its path, a leftover one having been unlinked.
C30_CopyFailureKeepsFile ==
  [][/\ pc \in {"ac_copy", "ac_copying"} => fs' = fs
     /\ (pc \in {"ac_copy", "ac_copying"} /\ pc' = "except") => tmp' = tmp
     /\ pc = "ac_copy" => ~exists(tmp[cp])]_vars

\* C30 witness: a write to a published path finds the temporary file a
\* failed COPY left.
C30_Witness ==
  /\ pc = "ac_unlink_tmp"
  /\ tmp[cp].st = "partial"
  /\ exists(fs[cp])

\* C27 as stated (own temp directory): no two language workers of a run are
\* configured with the same temp directory.
C27_OwnTempDir ==
  \A i, j \in DOMAIN jobs : i # j => jobs[i].tmpdir # jobs[j].tmpdir

\* C21 (corrupt dictionary): while the dictionary file of the language has a
\* non-zero size and cannot be parsed, no partition of the language is
\* processed, neither the dictionary nor any other file or temporary file is
\* written, and every partition that reaches load_or_init_dim raises into
\* the handler of process_lang, which reports it and counts it as skipped.
C21_CorruptDictionary ==
  [][(DictFile = Corrupt /\ pc # "idle") =>
       /\ fs' = fs /\ tmp' = tmp
       /\ processed = 0 /\ processed' = processed
       /\ pc = "load" => pc' = "except"
       /\ pc = "except" => (failed' /\ skipped' = skipped + 1 /\ pc' = "loop")]_vars

\* C21 witness: without skip-existing, a dictionary that had been published
\* is corrupt and the second partition has raised as the first one did.
C21_Witness ==
  /\ DictFile = Corrupt /\ getsize(DictFile) > 0
  /\ published # {} /\ ~skip_existing
  /\ pc = "except" /\ idx = NumParts /\ skipped = 1

\* ------------------------------------------------------------ trailing six months
\* months since year 0
MonthIndex(p) == 12 * p[1] + p[2]

\* the latest period of which edges_monthly has a row
LatestWithRows ==
  CHOOSE p \in {q \in EdgePeriods : e6_src[q].rows # {}} :
    \A q \in EdgePeriods : e6_src[q].rows # {} => MonthIndex(q) <= MonthIndex(p)

\* the transitions of a pair in the six calendar months that end at a period
RECURSIVE SumOfPair(_, _, _)
SumOfPair(g, end, k) ==
  IF k > 5 THEN 0
  ELSE LET hit == {r \in UNION {e6_src[p].rows : p \in {q \in EdgePeriods :
                                   MonthIndex(q) = MonthIndex(end) - k}} :
                     r.prev_id = g[1] /\ r.curr_id = g[2]}
       IN (IF hit = {} THEN 0 ELSE (CHOOSE r \in hit : TRUE).total_transitions)
          + SumOfPair(g, end, k + 1)

\* C26 (trailing 6-month edges): the file build_edges_6m writes is at the
\* latest period of which the language has edge rows; each of its rows is a
\* pair with its transitions summed over the six consecutive calendar months
\* that end at this period, also when they begin in the year before; it holds
\* at most topn_pairs pairs, all of them when they are fewer, and no pair
\* left out has a larger sum than a pair kept; no other file is touched.
C26_TrailingSixMonths ==
  (ipc = "done" /\ ilast.outcome = "written") =>
    LET end == LatestWithRows
        all == {[prev_title |-> Varchar(g[1]), curr_title |-> Varchar(g[2]),
                 transitions_6m |-> SumOfPair(g, end, 0)]
                  : g \in {h \in EdgePairs : SumOfPair(h, end, 0) > 0}}
        out == e6_out[end]
    IN /\ out.st = "complete"
       /\ out.rows \subseteq all
       /\ Cardinality(out.rows) <= topn_pairs
       /\ Cardinality(out.rows) < topn_pairs => out.rows = all
       /\ \A o \in all \ out.rows : \A r \in out.rows : o.transitions_6m <= r.transitions_6m
       /\ \A p \in EdgePeriods \ {end} : e6_out[p] \in {Absent, Complete({})}

\* C26 witness: the latest period is January 2024; July 2023, outside of the
\* window, and December 2023, inside, have rows; of two pairs one is kept,
\* with transitions of both years.
C26_Witness ==
  /\ ipc = "done" /\ ilast.outcome = "written"
  /\ topn_pairs = 1
  /\ e6_src[<<2024, 1>>].rows # {} /\ e6_src[<<2023, 12>>].rows # {}
  /\ e6_src[<<2023, 7>>].rows # {}
  /\ \E r \in e6_out[<<2024, 1>>].rows : r.transitions_6m = 2 * MaxTransitions
  /\ Cardinality(e6_out[<<2024, 1>>].rows) = 1
  /\ SumOfPair(<<1, 2>>, <<2024, 1>>, 0) > 0 /\ SumOfPair(<<2, 1>>, <<2024, 1>>, 0) > 0

\* ------------------------------------------------------------ title columns
\* the builder about to run reads a source that lacks every candidate column
\* of a prefix it needs
Unresolved ==
  /\ ipc \in Range(Builders)
  /\ gold_src[TopicOf(ipc)].st # "missing"
  /\ \E pre \in PrefixesOf(ipc) :
       \A k \in {"title", "name", "id"} : Col(pre, k) \notin gold_src[TopicOf(ipc)].cols

\* the expression the probe is to give for a prefix
Probed(cols, pre) ==
  CASE Col(pre, "title") \in cols -> [expr |-> "column", col |-> Col(pre, "title")]
    [] Col(pre, "title") \notin cols /\ Col(pre, "name") \in cols ->
         [expr |-> "column", col |-> Col(pre, "name")]
    [] Col(pre, "title") \notin cols /\ Col(pre, "name") \notin cols /\ Col(pre, "id") \in cols ->
         [expr |-> "cast", col |-> Col(pre, "id")]

====
